---- MODULE Spec2Model ----
(***************************************************************************)
(* Model of src/main.py: a Discord bot that relays direct messages.        *)
(*                                                                         *)
(*  - the settings store: authorized_user_ids, SEND_DELAY, the settings    *)
(*    file and file_lock (load_settings, save_settings);                   *)
(*  - the console thread (console_input_loop);                             *)
(*  - the slash command private_message and the ConfirmationView it        *)
(*    creates (interaction_check, agree_callback, cancel_callback,         *)
(*    start_sending).                                                      *)
(*                                                                         *)
(* Delays are counted in hundredths of a second (0.25 s = 25).             *)
(***************************************************************************)
EXTENDS Integers, Sequences, FiniteSets, TLC

\* ------------------------------------------------------------ constants
MIN_DELAY == 25
DEFAULT_DELAY == 100
MAX_SEND_COUNT == 10

\* ------------------------------------------------------------ JSON values
\* A JSON value as the code uses it: t is its type, v its payload.
JNum(n) == [t |-> "num", v |-> n]
JStr == [t |-> "str", v |-> 0]
JNaN == [t |-> "nan", v |-> 0]
JAbsent == [t |-> "absent", v |-> 0]

\* The value of the "user_ids" field: a list of strings, a string (a sequence
\* of characters), a number, or no such field.
UList(s) == [t |-> "list", v |-> s]
UString(s) == [t |-> "str", v |-> s]
UNumber == [t |-> "num", v |-> <<>>]
UAbsent == [t |-> "absent", v |-> <<>>]

Range(s) == {s[k] : k \in 1..Len(s)}

\* ------------------------------------------------------------ the file
\* What the settings path holds. "nodir": the data directory cannot be
\* created; "missing": no file; "unreadable": open() raises IOError;
\* "badjson": not JSON (empty or cut short included); "notrecord": JSON whose
\* top level is not an object; "record": a JSON object.
FileOf(k) == [kind |-> k, user_ids |-> UAbsent, send_delay |-> JAbsent]
FileRecord(u, d) == [kind |-> "record", user_ids |-> u, send_delay |-> d]

UserIdsInFile ==
    {UAbsent, UList(<<>>), UList(<<"1">>), UList(<<"2", "1", "2">>),
     UString(<<"2">>), UNumber}
SendDelayInFile == {JAbsent, JNum(10), JNum(200), JStr}
InitialFiles ==
    {FileOf(k) : k \in {"nodir", "missing", "unreadable", "badjson", "notrecord"}}
    \cup {FileRecord(u, d) : u \in UserIdsInFile, d \in SendDelayInFile}

VARIABLES
    file,                 \* content of SETTINGS_FILE
    authorized_user_ids,  \* the global set
    SEND_DELAY,           \* the global delay, a JSON value
    file_lock,            \* holder of file_lock: "free", "main" or "console"
    pc,                   \* position of the main and of the console thread
    cmd,                  \* the console thread's current (last read) line
    out,                  \* the console thread's last message
    save_failed,          \* a save_settings has printed its I/O error
    view,                 \* the ConfirmationView of the latest command
    loops,                \* the start_sending coroutines of that view
    req,                  \* the latest private_message invocation
    reply,                \* the latest response to an interaction
    report,               \* the latest final report of the view
    reports,              \* the number of final reports of the view
    slept                 \* the argument of the view's latest asyncio.sleep

store == <<file, authorized_user_ids, SEND_DELAY, file_lock, cmd, out, save_failed>>
flow == <<view, loops, req, reply, report, reports, slept>>
vars == <<file, authorized_user_ids, SEND_DELAY, file_lock, pc, cmd, out, save_failed,
          view, loops, req, reply, report, reports, slept>>

\* finished is "no" while the framework dispatches to the view, "stopped"
\* after stop() and "timed_out" after the timeout.
NoView == [exists |-> FALSE, author |-> "", count |-> 0,
           disabled |-> FALSE, finished |-> "no"]
NoReport == [sent |-> 0, failed |-> 0, attempts |-> 0, failed_at |-> 0,
             failure |-> "", clause |-> ""]
NoRequest == [made |-> FALSE, author |-> "", count |-> 0, member |-> FALSE, sends |-> 0]

InitWith(files) ==
    /\ file \in files
    /\ authorized_user_ids = {}
    /\ SEND_DELAY = JNum(DEFAULT_DELAY)
    /\ file_lock = "free"
    /\ pc = [main |-> "load_settings", console |-> "not_started"]
    /\ cmd = [name |-> "", arg |-> ""]
    /\ out = ""
    /\ save_failed = FALSE
    /\ view = NoView
    /\ loops = <<>>
    /\ req = NoRequest
    /\ reply = ""
    /\ report = NoReport
    /\ reports = 0
    /\ slept = JAbsent

\* ------------------------------------------------------------ load_settings
\* set(data.get("user_ids", [])): the elements of a list, the characters of a
\* string; a number is not iterable (TypeError).
SetOf(u) == IF u.t = "absent" THEN {} ELSE Range(u.v)

\* data.get("send_delay", 1.0): the field as it is, 1.0 when it is absent.
DelayOf(d) == IF d.t = "absent" THEN JNum(DEFAULT_DELAY) ELSE d

\* What lines 39-55 do with the file f, from the in-memory values ids, delay:
\*   "raise"  an exception that lines 52-55 do not catch leaves load_settings
\*            (makedirs is outside the try; AttributeError and TypeError are
\*            neither JSONDecodeError nor IOError);
\*   "save"   no file: save_settings() is called (line 50);
\*   "return" the body ends, with the values ids and delay.
LoadOutcome(f, ids, delay) ==
    CASE f.kind = "nodir" -> [result |-> "raise", ids |-> ids, delay |-> delay]
      [] f.kind = "missing" -> [result |-> "save", ids |-> ids, delay |-> delay]
      [] f.kind \in {"unreadable", "badjson"} ->
            [result |-> "return", ids |-> {}, delay |-> JNum(DEFAULT_DELAY)]
      [] f.kind = "notrecord" -> [result |-> "raise", ids |-> ids, delay |-> delay]
      [] f.kind = "record" ->
            IF f.user_ids.t = "num"
            THEN [result |-> "raise", ids |-> ids, delay |-> delay]
            ELSE [result |-> "return", ids |-> SetOf(f.user_ids),
                  delay |-> DelayOf(f.send_delay)]

\* line 37: with file_lock
load_settings_lock ==
    /\ pc.main = "load_settings"
    /\ file_lock = "free"
    /\ file_lock' = "main"
    /\ pc' = [pc EXCEPT !.main = "load_body"]
    /\ UNCHANGED <<file, authorized_user_ids, SEND_DELAY, cmd, out, save_failed, flow>>

\* lines 39-55, the lock held. Leaving the with block releases the lock, by
\* return or by exception; the call of save_settings is made with it held.
load_settings_body ==
    /\ pc.main = "load_body"
    /\ LET o == LoadOutcome(file, authorized_user_ids, SEND_DELAY) IN
         /\ authorized_user_ids' = o.ids
         /\ SEND_DELAY' = o.delay
         /\ pc' = [pc EXCEPT !.main =
                      CASE o.result = "raise" -> "crashed"
                        [] o.result = "save" -> "save_settings"
                        [] o.result = "return" -> "start_console"]
         /\ file_lock' = IF o.result = "save" THEN file_lock ELSE "free"
    /\ UNCHANGED <<file, cmd, out, save_failed, flow>>

\* ------------------------------------------------------------ save_settings
Threads == {"main", "console"}

\* list(authorized_user_ids): the members in some order.
ListOf(S) == CHOOSE s \in [1..Cardinality(S) -> S] : Range(s) = S

\* Mutant of SettingsData: the user ids are left out of the record.
SettingsDataNoIds(ids, delay) == FileRecord(UList(<<>>), delay)

\* Mutant of SettingsData: the delay is left out of the record.
SettingsDataNoDelay(ids, delay) == FileRecord(UList(ListOf(ids)), JAbsent)

\* lines 61-64: settings_data
SettingsData(ids, delay) == FileRecord(UList(ListOf(ids)), delay)

\* lines 65-66: open(SETTINGS_FILE, 'w') and json.dump. "ok": the record is
\* written; "open_fail": open raises IOError, the file is as before;
\* "write_fail": the file was truncated by open and the write raises IOError.
WriteOutcomes == {"ok", "open_fail", "write_fail"}
WriteFile(f, data, o) ==
    CASE o = "ok" -> data
      [] o = "open_fail" -> f
      [] o = "write_fail" -> FileOf("badjson")

\* The message the console prints when save_settings has returned
\* (lines 87, 97, 108).
DoneMessage(c) ==
    CASE c.name = "add_user" -> "add_ok"
      [] c.name = "remove_user" -> "remove_ok"
      [] c.name = "set_speed" -> "speed_ok"
      [] OTHER -> ""

\* line 59: with file_lock (a threading.Lock: not reentrant)
save_settings_lock(t) ==
    /\ pc[t] = "save_settings"
    /\ file_lock = "free"
    /\ file_lock' = t
    /\ pc' = [pc EXCEPT ![t] = "save_body"]
    /\ UNCHANGED <<file, authorized_user_ids, SEND_DELAY, cmd, out, save_failed, flow>>

\* Mutant of save_settings_body: an IOError of the write is not caught; it
\* leaves the with block (the lock is released) and ends the caller.
save_settings_body_raises(t, outcomes) ==
    /\ pc[t] = "save_body"
    /\ \E o \in outcomes :
         /\ file' = WriteFile(file, SettingsData(authorized_user_ids, SEND_DELAY), o)
         /\ save_failed' = (save_failed \/ o # "ok")
         /\ pc' = [pc EXCEPT ![t] = IF o # "ok" THEN "crashed"
                                    ELSE IF t = "main" THEN "start_console" ELSE "input"]
    /\ file_lock' = "free"
    /\ out' = IF t = "console" THEN DoneMessage(cmd) ELSE out
    /\ UNCHANGED <<authorized_user_ids, SEND_DELAY, cmd, flow>>

\* lines 60-68, then the caller's line after the call; outcomes are the
\* outcomes of the write that the environment can produce
save_settings_body(t, outcomes) ==
    /\ pc[t] = "save_body"
    /\ \E o \in outcomes :
         /\ file' = WriteFile(file, SettingsData(authorized_user_ids, SEND_DELAY), o)
         /\ save_failed' = (save_failed \/ o # "ok")
    /\ file_lock' = "free"
    /\ pc' = [pc EXCEPT ![t] = IF t = "main" THEN "start_console" ELSE "input"]
    /\ out' = IF t = "console" THEN DoneMessage(cmd) ELSE out
    /\ UNCHANGED <<authorized_user_ids, SEND_DELAY, cmd, flow>>

\* ------------------------------------------------------------ __main__
\* lines 237-242: the console thread is started, then the bot runs
start_services ==
    /\ pc.main = "start_console"
    /\ pc' = [main |-> "bot", console |-> "input"]
    /\ UNCHANGED <<store, flow>>

\* ------------------------------------------------------------ console_input_loop
Line(n, a) == [name |-> n, arg |-> a]

\* str.isdigit() on the argument strings the model feeds.
IsDigit(s) == s \in {"1", "2"}

\* float(s): the value in hundredths, NaN, or ValueError.
ParseFloat(s) ==
    CASE s = "0.1" -> [ok |-> TRUE, val |-> JNum(10)]
      [] s = "0.25" -> [ok |-> TRUE, val |-> JNum(25)]
      [] s = "2" -> [ok |-> TRUE, val |-> JNum(200)]
      [] s = "nan" -> [ok |-> TRUE, val |-> JNaN]
      [] OTHER -> [ok |-> FALSE, val |-> JNaN]

\* Mutant of AtLeastMin: the comparison is strict.
AtLeastMinStrict(x) == x.t = "num" /\ x.v > MIN_DELAY

\* new_delay >= MIN_DELAY on floats: false for NaN.
AtLeastMin(x) == x.t = "num" /\ x.v >= MIN_DELAY

\* "<eof>" stands for input() raising (EOFError on a closed stdin): line 127
\* prints the error and the loop goes on.
ConsoleLines ==
    {Line("add_user", a) : a \in {"1", "2", "x", ""}}
    \cup {Line("remove_user", a) : a \in {"1", "2", "x", ""}}
    \cup {Line("set_speed", a) : a \in {"0.1", "0.25", "2", "nan", "abc", ""}}
    \cup {Line(n, "") : n \in {"status", "list_users", "help", "bogus", "[log]", ""}}
    \cup {Line("<eof>", "")}

\* Mutant of Handle: add_user and remove_user do not test membership.
HandleNoMembership(l, ids, delay) ==
    LET keep(m) == [ids |-> ids, delay |-> delay, save |-> FALSE, msg |-> m] IN
    CASE l.name = "add_user" /\ IsDigit(l.arg) ->
            [ids |-> ids \cup {l.arg}, delay |-> delay, save |-> TRUE, msg |-> ""]
      [] l.name = "remove_user" /\ IsDigit(l.arg) ->
            [ids |-> ids \ {l.arg}, delay |-> delay, save |-> TRUE, msg |-> ""]
      [] OTHER -> keep("unknown")

\* What one line does (lines 77-126): the new set, the new delay, whether
\* save_settings is called, and the message printed before any save.
Handle(l, ids, delay) ==
    LET keep(m) == [ids |-> ids, delay |-> delay, save |-> FALSE, msg |-> m] IN
    CASE l.name = "" -> keep("")
      [] l.name = "<eof>" -> keep("error")
      [] l.name = "add_user" ->
            IF l.arg # "" /\ IsDigit(l.arg)
            THEN IF l.arg \notin ids
                 THEN [ids |-> ids \cup {l.arg}, delay |-> delay, save |-> TRUE, msg |-> ""]
                 ELSE keep("add_dup")
            ELSE keep("add_usage")
      [] l.name = "remove_user" ->
            IF l.arg # "" /\ IsDigit(l.arg)
            THEN IF l.arg \in ids
                 THEN [ids |-> ids \ {l.arg}, delay |-> delay, save |-> TRUE, msg |-> ""]
                 ELSE keep("remove_absent")
            ELSE keep("remove_usage")
      [] l.name = "set_speed" ->
            IF l.arg # ""
            THEN IF ParseFloat(l.arg).ok
                 THEN IF AtLeastMin(ParseFloat(l.arg).val)
                      THEN [ids |-> ids, delay |-> ParseFloat(l.arg).val,
                            save |-> TRUE, msg |-> ""]
                      ELSE keep("speed_too_low")
                 ELSE keep("speed_invalid")
            ELSE keep("speed_usage")
      [] l.name \in {"status", "list_users", "help"} -> keep(l.name)
      [] l.name = "[log]" -> keep("")
      [] OTHER -> keep("unknown")

\* Mutant of console_input_loop: the loop ends on an unknown command or an
\* exception.
console_input_loop_exits(lines) ==
    /\ pc.console = "input"
    /\ \E l \in lines :
         LET h == Handle(l, authorized_user_ids, SEND_DELAY) IN
           /\ cmd' = l
           /\ authorized_user_ids' = h.ids
           /\ SEND_DELAY' = h.delay
           /\ out' = h.msg
           /\ pc' = [pc EXCEPT !.console =
                        IF h.save THEN "save_settings"
                        ELSE IF h.msg \in {"unknown", "error"} THEN "crashed"
                        ELSE "input"]
    /\ UNCHANGED <<file, file_lock, save_failed, flow>>

\* lines 76-127: one line is read and handled, up to the call of save_settings
console_input_loop(lines) ==
    /\ pc.console = "input"
    /\ \E l \in lines :
         LET h == Handle(l, authorized_user_ids, SEND_DELAY) IN
           /\ cmd' = l
           /\ authorized_user_ids' = h.ids
           /\ SEND_DELAY' = h.delay
           /\ out' = h.msg
           /\ pc' = [pc EXCEPT !.console = IF h.save THEN "save_settings" ELSE "input"]
    /\ UNCHANGED <<file, file_lock, save_failed, flow>>

\* ------------------------------------------------------------ private_message
Requesters == {"1", "2"}
CountInputs == {-1, 0, 1, 2, 3, MAX_SEND_COUNT, MAX_SEND_COUNT + 1}

\* What a delivery (target_user.send) does: it returns, or raises
\* HTTPException with status 429 or 500, Forbidden (a subclass of
\* HTTPException, status 403), or another exception.
DeliveryOutcomes == {"ok", "rate_limit", "http_error", "forbidden", "error"}
CallOutcomes == {"ok", "fail"}

\* Mutant of IsAuthorized: the membership test is skipped.
IsAuthorizedSkipped(requester, ids) == TRUE

\* line 197: str(ctx.author.id) in authorized_user_ids
IsAuthorized(requester, ids) == requester \in ids

\* Mutant of InRange: the upper limit is exclusive.
InRangeBelowMax(count) == 1 <= count /\ count < MAX_SEND_COUNT

\* line 201: 1 <= count <= MAX_SEND_COUNT
InRange(count) == 1 <= count /\ count <= MAX_SEND_COUNT

\* lines 197-212: which way the command goes
Route(requester, count, ids) ==
    IF ~IsAuthorized(requester, ids) THEN "unauthorized"
    ELSE IF ~InRange(count) THEN "bad_count"
    ELSE IF count = 1 THEN "single"
    ELSE "prompt"

\* The view the model follows is the latest one: a command is taken when
\* there is no view or the view has finished and its coroutines have ended.
FlowOver ==
    /\ view.finished # "no"
    /\ \A k \in 1..Len(loops) : loops[k].pc \in {"done", "raised"}

\* lines 187-224: one invocation of the slash command
private_message(requester, count) ==
    /\ pc.main = "bot"
    /\ ~view.exists \/ FlowOver
    /\ loops' = <<>>
    /\ report' = NoReport
    /\ reports' = 0
    /\ slept' = JAbsent
    /\ LET r == Route(requester, count, authorized_user_ids)
           made == [made |-> TRUE, author |-> requester, count |-> count,
                    member |-> requester \in authorized_user_ids, sends |-> 0]
       IN
         CASE r = "unauthorized" ->
                /\ reply' = "no_permission"
                /\ view' = NoView
                /\ req' = made
           [] r = "bad_count" ->
                /\ reply' = "bad_count"
                /\ view' = NoView
                /\ req' = made
           [] r = "single" ->
                /\ \E o \in DeliveryOutcomes :
                     reply' = IF o = "ok" THEN "single_ok" ELSE "single_fail"
                /\ view' = NoView
                /\ req' = [made EXCEPT !.sends = 1]
           [] r = "prompt" ->
                /\ reply' = "prompt"
                /\ view' = [exists |-> TRUE, author |-> requester, count |-> count,
                            disabled |-> FALSE, finished |-> "no"]
                /\ req' = made
    /\ UNCHANGED <<store, pc>>

\* ------------------------------------------------------------ ConfirmationView
MaxLoops == 2

Actors == {"1", "2"}
Buttons == {"agree", "cancel"}

\* Mutant of interaction_check: any actor passes.
interaction_check_anyone(actor, author) == TRUE

\* lines 144-148
interaction_check(actor, author) == actor = author

\* Mutant of Dispatchable: the timeout does not end the dispatch.
DispatchableAfterTimeout(v) == v.exists /\ v.finished # "stopped"

\* line 137: the framework dispatches presses to a view until it has finished.
Dispatchable(v) == v.exists /\ v.finished = "no"

\* lines 161, 183: self.stop() finishes a view that has not finished yet.
Stop(v) == [v EXCEPT !.finished = IF @ = "no" THEN "stopped" ELSE @]

\* line 164: the locals of one start_sending coroutine, and where it is:
\* "send" (line 167), "sleep" (line 169), "done" (returned) or "raised" (left
\* by an exception). A coroutine that has ended holds no locals.
NewLoop == [pc |-> "send", i |-> 0, sent_count |-> 0]
Ended(p) == [pc |-> p, i |-> 0, sent_count |-> 0]

\* A press on a button of a view that has not finished: the framework runs
\* interaction_check and then the button's callback (lines 144-161).
press(actor, button) ==
    /\ pc.main = "bot"
    /\ Dispatchable(view)
    /\ IF ~interaction_check(actor, view.author)
       THEN /\ reply' = "not_your_panel"
            /\ UNCHANGED <<view, loops>>
       ELSE IF button = "agree"
       THEN /\ Len(loops) < MaxLoops
            /\ view' = [view EXCEPT !.disabled = TRUE]
            /\ reply' = "agreed"
            /\ loops' = Append(loops, NewLoop)
       ELSE /\ view' = Stop([view EXCEPT !.disabled = TRUE])
            /\ reply' = "cancelled"
            /\ UNCHANGED loops
    /\ UNCHANGED <<store, pc, req, report, reports, slept>>

\* A press on a view that has finished (stop() or timeout): the framework no
\* longer dispatches to it and the interaction fails.
press_finished(actor, button) ==
    /\ pc.main = "bot"
    /\ view.exists /\ ~Dispatchable(view)
    /\ reply' = "interaction_failed"
    /\ UNCHANGED <<store, pc, view, loops, req, report, reports, slept>>

\* line 137: timeout=60.0. With no interaction for 60 seconds the framework
\* finishes the view; the class defines no on_timeout.
timeout ==
    /\ pc.main = "bot"
    /\ view.exists /\ view.finished = "no"
    /\ view' = [view EXCEPT !.finished = "timed_out"]
    /\ UNCHANGED <<store, pc, loops, req, reply, report, reports, slept>>

\* ------------------------------------------------------------ start_sending
\* lines 170-181: the first except clause that matches the exception.
IsHTTPException(e) == e \in {"rate_limit", "http_error", "forbidden"}
IsForbidden(e) == e = "forbidden"
Status(e) == CASE e = "rate_limit" -> 429 [] e = "forbidden" -> 403 [] OTHER -> 500
ExceptClause(e) ==
    IF IsHTTPException(e)
    THEN IF Status(e) = 429 THEN "rate_limit" ELSE "http"
    ELSE IF IsForbidden(e) THEN "forbidden"
    ELSE "generic"

\* The clauses that send a notice to the requester (lines 173, 177).
SendsNotice(b) == b \in {"rate_limit", "forbidden"}

\* asyncio.sleep(delay) compares delay with 0: TypeError when it is no number.
CanSleep(delay) == delay.t = "num"

\* lines 182-183: the final report is sent and the view stopped, or the send
\* raises. rep is the report: the counts it shows, with the deliveries the
\* coroutine attempted, the attempt that failed (0: none), what failed and
\* the except clause that ran.
Finish(k, rep, r) ==
    IF r = "ok"
    THEN /\ loops' = [loops EXCEPT ![k] = Ended("done")]
         /\ report' = rep
         /\ reports' = reports + 1
         /\ view' = Stop(view)
         /\ reply' = "report"
    ELSE /\ loops' = [loops EXCEPT ![k] = Ended("raised")]
         /\ UNCHANGED <<report, reports, view, reply>>

Report(sent, failed, attempts, failed_at, failure, clause) ==
    [sent |-> sent, failed |-> failed, attempts |-> attempts,
     failed_at |-> failed_at, failure |-> failure, clause |-> clause]

\* lines 167-168 and 170-183: a delivery attempt. It returns (sent_count += 1)
\* or raises: the except clause runs, failed_count = self.count - i, break,
\* and the report follows. A notice that raises inside the clause ends the
\* coroutine.
deliver(k) ==
    /\ pc.main = "bot"
    /\ k \in 1..Len(loops)
    /\ loops[k].pc = "send"
    /\ req' = [req EXCEPT !.sends = @ + 1]
    /\ \E o \in DeliveryOutcomes :
         LET l == loops[k] IN
         IF o = "ok"
         THEN /\ loops' = [loops EXCEPT ![k] =
                              [l EXCEPT !.sent_count = @ + 1, !.pc = "sleep"]]
              /\ UNCHANGED <<report, reports, view, reply>>
         ELSE \E n \in IF SendsNotice(ExceptClause(o)) THEN CallOutcomes ELSE {"ok"} :
                IF n = "fail"
                THEN /\ loops' = [loops EXCEPT ![k] = Ended("raised")]
                     /\ UNCHANGED <<report, reports, view, reply>>
                ELSE \E r \in CallOutcomes :
                       Finish(k, Report(l.sent_count, view.count - l.i, l.i + 1,
                                        l.i + 1, o, ExceptClause(o)), r)
    /\ UNCHANGED <<store, pc, slept>>

\* Mutant of SleepArgument: the delay is the one of the module's start.
SleepArgumentAtStart(delay) == JNum(DEFAULT_DELAY)

\* line 169: asyncio.sleep(SEND_DELAY) evaluates the global when the call is
\* made; delay is SEND_DELAY's value at that moment.
SleepArgument(delay) == delay

\* line 169, the loop header and lines 179-183: the suspension, then the
\* next i; after the last one the report. A sleep that raises is caught at
\* line 179.
sleep(k) ==
    /\ pc.main = "bot"
    /\ k \in 1..Len(loops)
    /\ loops[k].pc = "sleep"
    /\ slept' = SleepArgument(SEND_DELAY)
    /\ LET l == loops[k] IN
         IF ~CanSleep(SleepArgument(SEND_DELAY))
         THEN \E r \in CallOutcomes :
                Finish(k, Report(l.sent_count, view.count - l.i, l.i + 1, 0,
                                 "sleep", ExceptClause("error")), r)
         ELSE IF l.i + 1 < view.count
         THEN /\ loops' = [loops EXCEPT ![k] = [l EXCEPT !.i = @ + 1, !.pc = "send"]]
              /\ UNCHANGED <<report, reports, view, reply>>
         ELSE \E r \in CallOutcomes :
                Finish(k, Report(l.sent_count, 0, l.i + 1, 0, "", ""), r)
    /\ UNCHANGED <<store, pc, req>>

\* ------------------------------------------------------------ specifications
\* SpecStore: the settings store alone: startup and the console thread, over
\* every kind of settings file, console line and write outcome.
NextStore ==
    \/ load_settings_lock
    \/ load_settings_body
    \/ \E t \in Threads : save_settings_lock(t)
    \/ \E t \in Threads : save_settings_body(t, WriteOutcomes)
    \/ start_services
    \/ console_input_loop(ConsoleLines)

InitStore == InitWith(InitialFiles)
SpecStore == InitStore /\ [][NextStore]_vars

\* Spec: the whole program. The bot reads the in-memory settings only, so
\* the files are those that give it a numeric and a non-numeric delay, the
\* console lines those that change what it reads, the counts the shortest
\* loop and the limits, and every write succeeds.
BotFiles ==
    {FileRecord(UList(<<"1">>), JAbsent), FileRecord(UList(<<"1">>), JStr)}
BotLines ==
    {Line("add_user", "2"), Line("remove_user", "1"), Line("set_speed", "0.25")}
BotCounts == {0, 1, 2, MAX_SEND_COUNT + 1}

Init == InitWith(BotFiles)

Next ==
    \/ load_settings_lock
    \/ load_settings_body
    \/ \E t \in Threads : save_settings_lock(t)
    \/ \E t \in Threads : save_settings_body(t, {"ok"})
    \/ start_services
    \/ console_input_loop(BotLines)
    \/ \E r \in Requesters, c \in BotCounts : private_message(r, c)
    \/ \E a \in Actors, b \in Buttons : press(a, b)
    \/ \E a \in Actors, b \in Buttons : press_finished(a, b)
    \/ timeout
    \/ \E k \in 1..MaxLoops : deliver(k)
    \/ \E k \in 1..MaxLoops : sleep(k)

Spec == Init /\ [][Next]_vars

\* SpecGate: the command and its view with the settings as loaded, over
\* every count around the limits.
NextGate ==
    \/ load_settings_lock
    \/ load_settings_body
    \/ start_services
    \/ \E r \in Requesters, c \in CountInputs : private_message(r, c)
    \/ \E a \in Actors, b \in Buttons : press(a, b)
    \/ \E a \in Actors, b \in Buttons : press_finished(a, b)
    \/ timeout
    \/ \E k \in 1..MaxLoops : deliver(k)
    \/ \E k \in 1..MaxLoops : sleep(k)

SpecGate == Init /\ [][NextGate]_vars

\* ------------------------------------------------------------ states of a flow
Live(l) == l.pc \in {"send", "sleep"}
Sending == view.exists /\ \E k \in 1..Len(loops) : Live(loops[k])
AwaitingConfirmation ==
    view.exists /\ view.finished = "no" /\ ~view.disabled /\ Len(loops) = 0
\* The view timed out before a Confirm or a Cancel was handled.
TimedOut == view.exists /\ view.finished = "timed_out" /\ Len(loops) = 0

\* ------------------------------------------------------------ C1
\* C1: every final report of a send loop over N deliveries shows
\* sent + failed = N; when the k-th delivery was the first to fail, exactly k
\* deliveries were attempted and the report shows sent = k-1 and
\* failed = N-k+1; when no delivery failed, N deliveries were attempted and
\* the report shows sent = N and failed = 0.
C1_AbortOnFirstError ==
    reports > 0 =>
        /\ report.sent + report.failed = view.count
        /\ report.failed_at > 0 =>
              /\ report.attempts = report.failed_at
              /\ report.sent = report.failed_at - 1
              /\ report.failed = view.count - report.failed_at + 1
        /\ report.failed_at = 0 =>
              /\ report.attempts = view.count
              /\ report.sent = view.count
              /\ report.failed = 0

\* ------------------------------------------------------------ C2
\* C2: for an authorized requester, a count of 1 creates no view and makes
\* one delivery attempt; a count in 2..MAX_SEND_COUNT creates the view and no
\* delivery is attempted before a Confirm starts a send loop; any other count
\* is rejected with no view and no delivery attempt.
C2_GatingByCount ==
    (req.made /\ req.member) =>
        /\ req.count = 1 =>
              /\ ~view.exists
              /\ req.sends = 1
              /\ reply \in {"single_ok", "single_fail"}
        /\ req.count \in 2..MAX_SEND_COUNT =>
              /\ view.exists
              /\ view.author = req.author /\ view.count = req.count
              /\ Len(loops) = 0 => req.sends = 0
        /\ req.count \notin 1..MAX_SEND_COUNT =>
              /\ ~view.exists
              /\ req.sends = 0
              /\ reply = "bad_count"

\* The view of a command with the largest count, before any Confirm.
C2_Witness ==
    /\ req.made /\ req.member /\ req.count = MAX_SEND_COUNT
    /\ AwaitingConfirmation /\ req.sends = 0

\* ------------------------------------------------------------ C3
\* C3: a command whose requester is not in authorized_user_ids when line 197
\* tests it is answered with the rejection, creates no view, attempts no
\* delivery and leaves the settings and the file as they are; so every
\* delivery attempt belongs to a command whose requester was a member and
\* whose count was in 1..MAX_SEND_COUNT at that test.
C3_AuthorizationFirst ==
    /\ [](/\ (req.made /\ ~req.member) =>
                (~view.exists /\ req.sends = 0 /\ reply = "no_permission")
          /\ req.sends > 0 => (req.member /\ req.count \in 1..MAX_SEND_COUNT))
    /\ [][(req'.made /\ ~req'.member /\ <<req, reply, view>>' # <<req, reply, view>>)
            => UNCHANGED store]_vars

\* A delivery was attempted for a requester who has been removed since.
C3_Witness ==
    /\ req.sends > 0 /\ req.member
    /\ req.author \notin authorized_user_ids

\* ------------------------------------------------------------ C4
\* C4: a press by anyone but the view's author is answered with the
\* rejection notice and changes nothing else: the view, its send loops, the
\* deliveries, the reports and the settings are as before.
C4_OnlyTheRequester ==
    [][\A a \in Actors, b \in Buttons :
          (press(a, b) /\ a # view.author) =>
              /\ reply' = "not_your_panel"
              /\ UNCHANGED <<view, loops, req, report, reports, store, pc>>]_vars

\* The other actor was rejected and the view still awaits its author.
C4_Witness ==
    /\ reply = "not_your_panel"
    /\ AwaitingConfirmation /\ req.sends = 0

\* ------------------------------------------------------------ C5
\* C5 as stated: a view that timed out while awaiting confirmation has its
\* buttons disabled and has started no send loop and attempted no delivery.
C5_TimedOutDisabled ==
    TimedOut => (view.disabled /\ req.sends = 0 /\ reports = 0)

\* C5 as amended: a view that timed out while awaiting confirmation is
\* finished with its buttons not marked disabled; it has started no send
\* loop and attempted no delivery, and no later press changes that: it stays
\* as it is until the next command replaces it.
C5_TimedOutIsTerminal ==
    /\ [](TimedOut => (~view.disabled /\ req.sends = 0 /\ reports = 0))
    /\ [][TimedOut =>
            \/ UNCHANGED <<view, loops, req, report, reports>>
            \/ ~view'.exists
            \/ view'.finished = "no"]_vars

\* A press arrived after the timeout and was not handled.
C5_Witness ==
    /\ TimedOut /\ reply = "interaction_failed"
    /\ req.sends = 0 /\ Len(loops) = 0

\* ------------------------------------------------------------ C6
\* What load_settings yields from the file f in a process that starts.
Loaded(f) == LoadOutcome(f, {}, JNum(DEFAULT_DELAY))
LoadsBack(f, ids) == Loaded(f).result = "return" /\ Loaded(f).ids = ids

AddUserDone ==
    pc.console = "input" /\ cmd.name = "add_user" /\ IsDigit(cmd.arg)

C7_LoadMissingReturns ==
    pc.main = "save_settings" => ENABLED save_settings_lock("main")

\* ------------------------------------------------------------ C8
\* A settings path that is malformed or unreadable: no directory, an
\* unreadable file, no JSON, no object at the top level, or a field of the
\* wrong type.
Malformed(f) ==
    \/ f.kind \in {"nodir", "unreadable", "badjson", "notrecord"}
    \/ f.kind = "record" /\ (f.user_ids.t \in {"num", "str"} \/ f.send_delay.t = "str")

\* C8: when load_settings has ended on a malformed or unreadable file, it has
\* returned, with the defaults in memory and file_lock released. (The file is
\* the one load_settings read: nothing writes it before the console starts.)
C8_LoadNeverFails ==
    (pc.main \in {"start_console", "crashed"} /\ Malformed(file)) =>
        /\ pc.main = "start_console"
        /\ authorized_user_ids = {}
        /\ SEND_DELAY = JNum(DEFAULT_DELAY)
        /\ file_lock = "free"

\* ------------------------------------------------------------ C9
\* C9: once load_settings has returned, SEND_DELAY is a number and at least
\* MIN_DELAY.
C9_DelayAtLeastMin ==
    pc.main = "bot" => (SEND_DELAY.t = "num" /\ SEND_DELAY.v >= MIN_DELAY)

\* ------------------------------------------------------------ C10
\* The argument of set_speed: a number below MIN_DELAY, a number at or above
\* it, or no number (missing or not parsed).
Below(a) ==
    a # "" /\ ParseFloat(a).ok /\ ParseFloat(a).val.t = "num"
           /\ ParseFloat(a).val.v < MIN_DELAY
AtOrAbove(a) ==
    a # "" /\ ParseFloat(a).ok /\ ParseFloat(a).val.t = "num"
           /\ ParseFloat(a).val.v >= MIN_DELAY
NoNumber(a) == a = "" \/ ~ParseFloat(a).ok

\* The console reads a set_speed line.
ReadsSetSpeed == pc.console = "input" /\ cmd'.name = "set_speed"
SetSpeedDone == pc.console = "input" /\ cmd.name = "set_speed" /\ AtOrAbove(cmd.arg)

\* What C10 says of the step that reads the line: a value below MIN_DELAY or
\* no number is answered with its error and changes neither the settings nor
\* the file; a value at or above MIN_DELAY is stored and save_settings called.
C10_Step ==
    ReadsSetSpeed =>
        /\ Below(cmd'.arg) =>
              /\ out' = "speed_too_low" /\ pc'.console = "input"
              /\ UNCHANGED <<SEND_DELAY, authorized_user_ids, file>>
        /\ NoNumber(cmd'.arg) =>
              /\ out' \in {"speed_usage", "speed_invalid"} /\ pc'.console = "input"
              /\ UNCHANGED <<SEND_DELAY, authorized_user_ids, file>>
        /\ AtOrAbove(cmd'.arg) =>
              /\ SEND_DELAY' = ParseFloat(cmd'.arg).val
              /\ pc'.console = "save_settings"
              /\ UNCHANGED <<authorized_user_ids, file>>

ReadsRemoveAbsent ==
    /\ pc.console = "input" /\ cmd'.name = "remove_user"
    /\ IsDigit(cmd'.arg) /\ cmd'.arg \notin authorized_user_ids
ReadsAddPresent ==
    /\ pc.console = "input" /\ cmd'.name = "add_user"
    /\ IsDigit(cmd'.arg) /\ cmd'.arg \in authorized_user_ids

\* C11: remove_user of an all-digit id that is not in authorized_user_ids
\* prints 'not in list' and changes neither authorized_user_ids, SEND_DELAY
\* nor the file, and save_settings is not called; add_user of an id that is
\* in the set prints 'already in list' and changes nothing either.
C11_NoOpOnNonMember ==
    [][ /\ ReadsRemoveAbsent =>
            /\ out' = "remove_absent" /\ pc'.console = "input"
            /\ UNCHANGED <<authorized_user_ids, SEND_DELAY, file, file_lock>>
        /\ ReadsAddPresent =>
            /\ out' = "add_dup" /\ pc'.console = "input"
            /\ UNCHANGED <<authorized_user_ids, SEND_DELAY, file, file_lock>>
      ]_vars

\* remove_user 2 was answered 'not in list' with 1 in the set and in the file.
C11_Witness ==
    /\ pc.console = "input" /\ cmd = Line("remove_user", "2")
    /\ out = "remove_absent"
    /\ authorized_user_ids = {"1"}
    /\ LoadsBack(file, {"1"})

\* ------------------------------------------------------------ C12
\* The console's save_settings ends with a write that failed: the flag of a
\* reported IOError rises, or the file is not the record that was to be
\* written.
SaveFailsNow ==
    /\ pc.console = "save_body" /\ pc'.console # "save_body"
    /\ \/ ~save_failed /\ save_failed'
       \/ file' # SettingsData(authorized_user_ids, SEND_DELAY)

\* C12: when the write in save_settings fails with an IOError, save_settings
\* returns to the console loop, which prints its message and reads the next
\* line; authorized_user_ids and SEND_DELAY are as they were when
\* save_settings was called and file_lock is released.
C12_SaveFailureIsSurvived ==
    [][ SaveFailsNow =>
            /\ pc'.console = "input"
            /\ file_lock' = "free"
            /\ UNCHANGED <<authorized_user_ids, SEND_DELAY>>
      ]_vars

\* add_user 2 completed although its save failed: 2 is in memory, the file
\* does not load back to the set, the lock is free and a line can be read.
C12_Witness ==
    /\ pc.console = "input" /\ cmd = Line("add_user", "2") /\ out = "add_ok"
    /\ save_failed /\ file_lock = "free"
    /\ "2" \in authorized_user_ids
    /\ ~LoadsBack(file, authorized_user_ids)

\* ------------------------------------------------------------ C13
\* A line that is no well-formed add_user, remove_user or set_speed: empty,
\* unknown, an informational command, one whose reading raised, or one with a
\* missing or malformed argument.
BadLine(l) ==
    \/ l.name \notin {"add_user", "remove_user", "set_speed"}
    \/ l.name \in {"add_user", "remove_user"} /\ ~IsDigit(l.arg)
    \/ l.name = "set_speed" /\ NoNumber(l.arg)

\* The console thread can take a step: read a line, take file_lock, or write.
ConsoleCanStep ==
    \/ ENABLED console_input_loop(ConsoleLines)
    \/ ENABLED save_settings_lock("console")
    \/ ENABLED save_settings_body("console", WriteOutcomes)

\* C13: once started the console thread has never ended and can always take
\* a step; a bad line changes nothing in the store and leaves the thread
\* reading the next line.
C13_ConsoleNeverEnds ==
    /\ [](pc.console # "not_started" =>
            /\ pc.console \in {"input", "save_settings", "save_body"}
            /\ ConsoleCanStep)
    /\ [][ (pc.console = "input" /\ cmd' # cmd /\ BadLine(cmd')) =>
              /\ pc'.console = "input"
              /\ UNCHANGED <<authorized_user_ids, SEND_DELAY, file, file_lock>>
         ]_vars

\* The reading of a line raised, the error was printed and the loop is
\* reading again, the settings as they were.
C13_Witness ==
    /\ pc.console = "input" /\ cmd.name = "<eof>" /\ out = "error"
    /\ authorized_user_ids = {"1", "2"}
    /\ ENABLED console_input_loop(ConsoleLines)

\* ------------------------------------------------------------ C14
\* C14: for one view the send loop is started at most once, a press is
\* handled only while the view awaits confirmation, and the deliveries
\* attempted for the view never exceed its count.
C14_OneSendLoop ==
    /\ [](view.exists => (Len(loops) <= 1 /\ req.sends <= view.count))
    /\ [][ \A a \in Actors, b \in Buttons :
             (press(a, b) /\ interaction_check(a, view.author)) => AwaitingConfirmation
         ]_vars

\* ------------------------------------------------------------ C15
\* Every start_sending coroutine of the view has ended.
AllEnded ==
    Len(loops) > 0 /\ \A k \in 1..Len(loops) : loops[k].pc \in {"done", "raised"}

\* C15: a send loop that has ended has sent one final report and stopped the
\* view; no send loop is left by an exception. (Stated for a view confirmed
\* once.)
C15_EndsInReport ==
    (Len(loops) = 1 /\ AllEnded) =>
        /\ loops[1].pc = "done"
        /\ reports = 1
        /\ view.finished # "no"

\* ------------------------------------------------------------ C16
\* C16: in a report that follows a failed delivery, the except clause that
\* ran is the one of the failure's class: the 429 branch for a rate limit,
\* the Forbidden branch for a permission failure, and the generic logging
\* (of an HTTP error or of any other exception) for the rest.
C16_FailureClassification ==
    (reports > 0 /\ report.failed_at > 0) =>
        /\ report.failure = "rate_limit" => report.clause = "rate_limit"
        /\ report.failure = "forbidden" => report.clause = "forbidden"
        /\ report.failure \in {"http_error", "error"} =>
              report.clause \in {"http", "generic"}

\* ------------------------------------------------------------ C17
\* A start_sending coroutine goes into its suspension.
Suspends(k) == k <= Len(loops) /\ loops[k].pc = "sleep" /\ loops'[k] # loops[k]

\* C17: each suspension of a send loop is called with the value SEND_DELAY
\* has when the suspension starts, whatever it was at Confirm; and while a
\* send loop runs the console thread can take its steps.
C17_LiveDelay ==
    /\ [][ \A k \in 1..MaxLoops : Suspends(k) => slept' = SEND_DELAY ]_vars
    /\ []((Sending /\ pc.console # "not_started") => ConsoleCanStep)

\* A loop's first suspension was called with 1.0, the console has since
\* completed set_speed 0.25, and the loop is about to suspend again.
C17_Witness ==
    /\ \E k \in 1..Len(loops) : loops[k].pc = "sleep" /\ loops[k].i = 1
    /\ slept = JNum(DEFAULT_DELAY)
    /\ SEND_DELAY = JNum(MIN_DELAY)
    /\ cmd = Line("set_speed", "0.25") /\ pc.console = "input"

\* ------------------------------------------------------------ C18
\* C18: every step that changes authorized_user_ids, SEND_DELAY or the file
\* is taken with file_lock held.
C18_MutationsUnderLock ==
    [][ (authorized_user_ids' # authorized_user_ids
           \/ SEND_DELAY' # SEND_DELAY
           \/ file' # file) => file_lock # "free" ]_vars

\* ------------------------------------------------------------ C19
\* C19: a step that changes the file leaves in it the complete record of the
\* settings that were being saved; the file is never left empty or partial.
C19_AtomicSave ==
    [][ file' # file =>
            /\ file'.kind = "record"
            /\ file' = FileRecord(UList(ListOf(authorized_user_ids)), SEND_DELAY)
      ]_vars

\* ------------------------------------------------------------ C20
\* The console thread is between two commands and no save_settings has
\* reported an I/O error.
AtRest == pc.console = "input" /\ ~save_failed

\* C20 as stated: at rest the file is a record whose user_ids and send_delay
\* (read with their defaults when absent) are authorized_user_ids and
\* SEND_DELAY.
C20_MemoryAndFileAgree ==
    AtRest =>
        /\ file.kind = "record"
        /\ SetOf(file.user_ids) = authorized_user_ids
        /\ DelayOf(file.send_delay) = SEND_DELAY

\* C20 as amended: at rest a load of the file returns and yields
\* authorized_user_ids and SEND_DELAY; the file itself may still be the
\* malformed or unreadable one found at startup, which load_settings answers
\* with the defaults and does not rewrite.
C20_FileLoadsBackToMemory ==
    AtRest =>
        /\ Loaded(file).result = "return"
        /\ Loaded(file).ids = authorized_user_ids
        /\ Loaded(file).delay = SEND_DELAY

\* set_speed 2 has completed with both ids in the set, every save having
\* succeeded: the file holds the record of both settings.
C20_Witness ==
    /\ AtRest /\ cmd = Line("set_speed", "2") /\ out = "speed_ok"
    /\ authorized_user_ids = {"1", "2"} /\ SEND_DELAY = JNum(200)
    /\ file = FileRecord(UList(ListOf({"1", "2"})), JNum(200))
====
